---- MODULE Spec2Model ----
(***************************************************************************)
(* A model of the vulnerability-repair experiment harness (run/main.py and *)
(* the classes it drives).                                                 *)
(*                                                                         *)
(* Texts are modelled as sequences of tokens:                              *)
(*   "F"  a code fence (three backticks)                                   *)
(*   "J"  the word java                                                    *)
(*   "s"  one whitespace character                                         *)
(*   "x"  any other character                                              *)
(* Python's None is the record None; a value v that is not None is         *)
(* Some(v).                                                                *)
(***************************************************************************)
EXTENDS Integers, Sequences, FiniteSets, TLC

VARIABLES
    \* --- one function called on its own (the unit specifications)
    fn_in,      \* arguments (and environment) of the function under call
    fn_out,     \* what that call returned / did; NotCalled before the call
    fn_pc,      \* "call" before the function runs, "returned" after
    \* --- main() and process_bug()
    argv,             \* the flags given on the command line
    bug_ids,          \* main: the list of bug ids
    idx,              \* main: position in bug_ids of the bug of this iteration
    pc,               \* where main / process_bug is
    result,           \* process_bug: the result dictionary
    vuln_info,        \* process_bug: what get_complete_extraction returned
    graph_info_text,  \* process_bug: the formatted graph text (None until built)
    prompt_graph_info,\* the text put in the prompt's graph_info slot (None until built)
    response,         \* process_bug: the LLM's response
    generated_code,   \* process_bug: the code extracted from the response
    fixed_file,       \* process_bug: the path integrate_code returned
    ran,              \* the stages this call of process_bug has entered, in order
    tools,            \* the static-analysis tools this call has invoked, in order
    written,          \* the artifacts this call has written
    failed,           \* the bug ids whose processing hit a failed gate or an exception
    all_results,      \* main: the all_results dictionary
    file,             \* all_results.json on disk
    write_status      \* main: how the last write of all_results.json in the loop ended

unitVars == <<fn_in, fn_out, fn_pc>>
mainVars == <<argv, bug_ids, idx, pc, all_results, file, write_status, failed>>
bugVars == <<result, vuln_info, graph_info_text, prompt_graph_info, response,
             generated_code, fixed_file, ran, tools, written>>

vars == <<fn_in, fn_out, fn_pc, argv, bug_ids, idx, pc, result, vuln_info,
          graph_info_text, prompt_graph_info, response, generated_code, fixed_file,
          ran, tools, written, failed, all_results, file, write_status>>

\* ------------------------------------------------------------------ bounds

MaxLen == 5          \* longest LLM response, in tokens
MaxBugs == 2         \* most bug ids in a run
MaxScore == 2        \* CodeBLEU scores are 0/MaxScore .. MaxScore/MaxScore
MaxLine == 2         \* source lines are 1..MaxLine
MaxGraphNodes == 3   \* most nodes the merged outputs put in one graph
MaxToolOutput == 1   \* most nodes one tool's output holds in build_graph_for_file

\* ------------------------------------------------------------ Python values

None == [none |-> TRUE, v |-> <<>>]      \* v is never read when none holds
Some(x) == [none |-> FALSE, v |-> x]
NotCalled == [called |-> FALSE]

Tok == {"F", "J", "s", "x"}

Range(q) == {q[k] : k \in 1..Len(q)}

RECURSIVE SeqsUpTo(_, _)
SeqsUpTo(S, n) ==
    IF n = 0 THEN {<<>>}
    ELSE LET shorter == SeqsUpTo(S, n - 1)
         IN  shorter \cup {Append(q, t) : q \in {r \in shorter : Len(r) = n - 1}, t \in S}

Max(S) == CHOOSE m \in S : \A k \in S : k <= m
Min(S) == CHOOSE m \in S : \A k \in S : m <= k

\* str.strip(): drop the leading and the trailing whitespace.
Strip(t) ==
    LET keep == {k \in 1..Len(t) : t[k] # "s"}
    IN  IF keep = {} THEN <<>> ELSE SubSeq(t, Min(keep), Max(keep))

\* ------------------------------------------------- inference.py: the regexes

\* All of t[a..b] is whitespace (vacuously when a > b).
AllWs(t, a, b) == \A k \in a..b : t[k] = "s"

\* One attempt of the pattern  FENCE [java] \s* ([\s\S]*?) \s* FENCE  anchored
\* at position i: the set of <<w, n>> (w leading whitespace taken by the first
\* \s*, n tokens taken by the group) for which the rest of the pattern matches.
AttemptsAt(t, i, java) ==
    LET p == IF java THEN i + 2 ELSE i + 1      \* first position after the opener
        opens == /\ i <= Len(t)
                 /\ t[i] = "F"
                 /\ java => (i + 1 <= Len(t) /\ t[i + 1] = "J")
    IN  IF ~opens THEN {}
        ELSE {wn \in (0..Len(t)) \X (0..Len(t)) :
                LET w == wn[1]
                    n == wn[2]
                    e == p + w + n               \* first position after the group
                IN  /\ p + w - 1 <= Len(t)
                    /\ AllWs(t, p, p + w - 1)
                    /\ \E tr \in 0..Len(t) :
                          /\ e + tr <= Len(t)
                          /\ AllWs(t, e, e + tr - 1)
                          /\ t[e + tr] = "F"}

\* The group of the match the backtracking engine finds at i: the first \s* is
\* greedy (longest w first), the group is lazy (shortest n first).
GroupAt(t, i, java) ==
    LET att == AttemptsAt(t, i, java)
        w == Max({wn[1] : wn \in att})
        n == Min({wn[2] : wn \in {a \in att : a[1] = w}})
        p == IF java THEN i + 2 ELSE i + 1
    IN  SubSeq(t, p + w, p + w + n - 1)

\* re.findall(pattern, t)[0] when there is a match: the leftmost one.
HasMatch(t, java) == \E i \in 1..Len(t) : AttemptsAt(t, i, java) # {}
FirstGroup(t, java) ==
    GroupAt(t, Min({i \in 1..Len(t) : AttemptsAt(t, i, java) # {}}), java)

\* The group taken greedily: what the pattern would capture with [\s\S]* in
\* place of [\s\S]*?.
extract_code_from_response_greedy(response_text) ==
    IF response_text.none \/ response_text.v = <<>> THEN None
    ELSE LET t == response_text.v
             grp(java) ==
                 LET i == Min({k \in 1..Len(t) : AttemptsAt(t, k, java) # {}})
                     att == AttemptsAt(t, i, java)
                     w == Max({wn[1] : wn \in att})
                     n == Max({wn[2] : wn \in {a \in att : a[1] = w}})
                     p == IF java THEN i + 2 ELSE i + 1
                 IN  SubSeq(t, p + w, p + w + n - 1)
         IN  IF HasMatch(t, TRUE) THEN Some(Strip(grp(TRUE)))
             ELSE IF HasMatch(t, FALSE) THEN Some(Strip(grp(FALSE)))
             ELSE Some(t)

\* LLMInference.extract_code_from_response
extract_code_from_response(response_text) ==
    IF response_text.none \/ response_text.v = <<>> THEN None
    ELSE LET t == response_text.v
         IN  IF HasMatch(t, TRUE) THEN Some(Strip(FirstGroup(t, TRUE)))
             ELSE IF HasMatch(t, FALSE) THEN Some(Strip(FirstGroup(t, FALSE)))
             ELSE Some(t)

\* ------------------------------------------------ the parts that stand still

\* process_bug's result dictionary as created at lines 94-98.
NewResult == [success |-> FALSE, stages |-> {}, evaluation |-> None]
NoFile == [state |-> "absent", results |-> <<>>, summary |-> None]

\* A fresh call of process_bug: nothing extracted, built or run yet.
FreshBug ==
    /\ result = NewResult
    /\ vuln_info = None
    /\ graph_info_text = None
    /\ prompt_graph_info = None
    /\ response = None
    /\ generated_code = None
    /\ fixed_file = None
    /\ ran = <<>>
    /\ tools = <<>>
    /\ written = {}

\* main is not running (a function is called on its own).
MainIdle ==
    /\ argv = {}
    /\ bug_ids = <<>>
    /\ idx = 0
    /\ pc = "idle"
    /\ all_results = [results |-> <<>>, summary |-> None]
    /\ file = NoFile
    /\ write_status = "none"
    /\ failed = {}
    /\ FreshBug

\* No function is called on its own (main is running).
UnitIdle ==
    /\ fn_in = [fn |-> "none"]
    /\ fn_out = NotCalled
    /\ fn_pc = "idle"

\* ----------------------------------------- unit: extract_code_from_response

Responses == {None} \cup {Some(t) : t \in SeqsUpTo(Tok, MaxLen)}

InitExtract ==
    /\ fn_in \in {[fn |-> "extract_code_from_response", response_text |-> r] : r \in Responses}
    /\ fn_out = NotCalled
    /\ fn_pc = "call"
    /\ MainIdle

CallExtract ==
    /\ fn_pc = "call"
    /\ fn_in.fn = "extract_code_from_response"
    /\ fn_out' = [called |-> TRUE, ret |-> extract_code_from_response(fn_in.response_text)]
    /\ fn_pc' = "returned"
    /\ UNCHANGED <<fn_in, mainVars, bugVars>>

NextExtract == CallExtract

SpecExtract == InitExtract /\ [][NextExtract]_vars

\* ------------------------------------------------------------------- C6

\* Positions of the fences of t.
C6_Fences(t) == {k \in 1..Len(t) : t[k] = "F"}
\* Openers of a fenced block: a fence (followed by java when java is asked
\* for) that has a closing fence somewhere after the opener.
C6_BlockOpeners(t, java) ==
    {i \in C6_Fences(t) :
        /\ java => (i + 1 <= Len(t) /\ t[i + 1] = "J")
        /\ \E f \in C6_Fences(t) : f > (IF java THEN i + 1 ELSE i)}
\* The text between the first opener and the next fence.
C6_FirstBlock(t, java) ==
    LET i == Min(C6_BlockOpeners(t, java))
        p == IF java THEN i + 2 ELSE i + 1
        f == Min({k \in C6_Fences(t) : k >= p})
    IN  SubSeq(t, p, f - 1)

\* C6: extract_code_from_response returns None for an empty response;
\* otherwise the stripped content of the first java fenced block when there
\* is one (wherever generic blocks are); otherwise the stripped content of
\* the first fenced block; otherwise the whole response unchanged.
C6_ExtractCode ==
    (fn_pc = "returned" /\ fn_in.fn = "extract_code_from_response") =>
        LET r == fn_in.response_text
            t == r.v
        IN  fn_out.ret =
               IF r.none \/ t = <<>> THEN None
               ELSE IF C6_BlockOpeners(t, TRUE) # {} THEN Some(Strip(C6_FirstBlock(t, TRUE)))
               ELSE IF C6_BlockOpeners(t, FALSE) # {} THEN Some(Strip(C6_FirstBlock(t, FALSE)))
               ELSE Some(t)

\* A response where a generic block precedes a java block has been processed
\* and the java block's content came back.
C6_Witness ==
    /\ fn_pc = "returned"
    /\ fn_in.fn = "extract_code_from_response"
    /\ fn_in.response_text = Some(<<"F", "F", "J", "x", "F">>)
    /\ fn_out.ret = Some(<<"x">>)

\* ------------------------------------------------------------- file system

\* A file system is a function from paths (sequences of names) to contents.
WriteFile(fs, path, content) ==
    [p \in DOMAIN fs \cup {path} |-> IF p = path THEN content ELSE fs[p]]

\* The dataset's files of one bug: dataset/file/<bug_id>/before.java, after.java
\* (VulnerabilityDataset.get_file_paths).
DatasetDir(bug_id) == <<"dataset", "file", bug_id>>
BeforeFile(bug_id) == Append(DatasetDir(bug_id), "before.java")
AfterFile(bug_id) == Append(DatasetDir(bug_id), "after.java")

\* Python truthiness of an optional text or path, of an optional string (a
\* bug id), of an optional dict.
Truthy(v) == ~v.none /\ v.v # <<>>
TruthyStr(v) == ~v.none /\ v.v # ""
TruthyDict(v) == ~v.none /\ v.v.keys # {}

\* A vuln_info dict: the keys it holds and the value under 'bug_id'.
Dict(keys, bug_id) == [keys |-> keys, bug_id |-> bug_id]
\* vuln_info.get('bug_id'): None when the key is absent.
GetBugId(d) == IF "bug_id" \in d.keys THEN Some(d.bug_id) ELSE None

\* ------------------------------------- code_integrator.py: integrate_code

\* What a call did: it returned ret (a pair) or raised, and left fs behind.
Returned(ret, fs) == [called |-> TRUE, raised |-> FALSE, ret |-> ret, fs |-> fs]
Raised(fs) == [called |-> TRUE, raised |-> TRUE, ret |-> <<>>, fs |-> fs]

\* The directory integrate_code writes into (lines 60-65).
target_dir(results_dir, bug_id, output_dir) ==
    IF Truthy(output_dir) THEN output_dir.v
    ELSE IF Truthy(results_dir) THEN Append(results_dir.v, bug_id)
    ELSE <<"results", bug_id>>

\* integrate_code with the results directory taking precedence over output_dir.
integrate_code_results_first(results_dir, gen_code, info, output_dir, io, fs) ==
    IF ~Truthy(gen_code) \/ ~TruthyDict(info) THEN Returned(<<FALSE, None>>, fs)
    ELSE LET bug_id == GetBugId(info.v)
         IN  IF ~TruthyStr(bug_id) THEN Returned(<<FALSE, None>>, fs)
             ELSE LET dir == IF Truthy(results_dir) THEN Append(results_dir.v, bug_id.v)
                             ELSE IF Truthy(output_dir) THEN output_dir.v
                             ELSE <<"results", bug_id.v>>
                      output_file == Append(dir, "fixed.java")
                  IN  IF io = "makedirs_raises" THEN Raised(fs)
                      ELSE IF io = "open_raises" THEN Returned(<<FALSE, None>>, fs)
                      ELSE IF io = "write_raises"
                           THEN Returned(<<FALSE, None>>, WriteFile(fs, output_file, <<>>))
                      ELSE Returned(<<TRUE, Some(output_file)>>,
                                    WriteFile(fs, output_file, gen_code.v))

\* CodeIntegrator.integrate_code, on a CodeIntegrator built with results_dir.
\* io is what the file system does: "ok", "makedirs_raises" (os.makedirs, line
\* 68, outside the try), "open_raises" (open fails, nothing is created),
\* "write_raises" (the file was created and the write failed).
integrate_code(results_dir, gen_code, info, output_dir, io, fs) ==
    IF ~Truthy(gen_code) \/ ~TruthyDict(info) THEN Returned(<<FALSE, None>>, fs)
    ELSE LET bug_id == GetBugId(info.v)
         IN  IF ~TruthyStr(bug_id) THEN Returned(<<FALSE, None>>, fs)
             ELSE LET dir == target_dir(results_dir, bug_id.v, output_dir)
                      output_file == Append(dir, "fixed.java")
                  IN  IF io = "makedirs_raises" THEN Raised(fs)
                      ELSE IF io = "open_raises" THEN Returned(<<FALSE, None>>, fs)
                      ELSE IF io = "write_raises"
                           THEN Returned(<<FALSE, None>>, WriteFile(fs, output_file, <<>>))
                      ELSE Returned(<<TRUE, Some(output_file)>>,
                                    WriteFile(fs, output_file, gen_code.v))

\* ------------------------------------------------------ unit: integrate_code

Codes == {None, Some(<<>>), Some(<<"x">>), Some(<<"x", "s", "x">>)}
BugIds == {"b1", "b2"}
\* vuln_info: None, the empty dict, a dict without bug_id, with an empty
\* bug_id, with a bug_id.
VulnInfos ==
    {None, Some(Dict({}, "")), Some(Dict({"title"}, "")), Some(Dict({"title", "bug_id"}, ""))}
        \cup {Some(Dict({"title", "bug_id"}, b)) : b \in BugIds}
OutputDirs == {None, Some(<<"out">>), Some(DatasetDir("b1"))}
ResultsDirs == {None, Some(<<"res">>)}
IntegrateIO == {"ok", "makedirs_raises", "open_raises", "write_raises"}
DatasetFS ==
    [p \in {BeforeFile(b) : b \in BugIds} \cup {AfterFile(b) : b \in BugIds} |->
        IF p[4] = "before.java" THEN <<"x", "x">> ELSE <<"x", "s">>]

InitIntegrate ==
    /\ fn_in \in {[fn |-> "integrate_code", results_dir |-> r, generated_code |-> c,
                   vuln_info |-> v, output_dir |-> o, io |-> io, fs |-> DatasetFS] :
                     r \in ResultsDirs, c \in Codes, v \in VulnInfos,
                     o \in OutputDirs, io \in IntegrateIO}
    /\ fn_out = NotCalled
    /\ fn_pc = "call"
    /\ MainIdle

CallIntegrate ==
    /\ fn_pc = "call"
    /\ fn_in.fn = "integrate_code"
    /\ fn_out' = integrate_code(fn_in.results_dir, fn_in.generated_code, fn_in.vuln_info,
                                fn_in.output_dir, fn_in.io, fn_in.fs)
    /\ fn_pc' = "returned"
    /\ UNCHANGED <<fn_in, mainVars, bugVars>>

NextIntegrate == CallIntegrate

SpecIntegrate == InitIntegrate /\ [][NextIntegrate]_vars

\* ------------------------------------------------------------------- C8

\* The call's generated_code is empty, its vuln_info is empty, or its
\* vuln_info has no bug_id.
C8_Missing ==
    \/ ~Truthy(fn_in.generated_code)
    \/ fn_in.vuln_info.none
    \/ fn_in.vuln_info.v.keys = {}
    \/ "bug_id" \notin fn_in.vuln_info.v.keys
    \/ fn_in.vuln_info.v.bug_id = ""
\* fixed.java in output_dir if given, else results_dir/bug_id, else results/bug_id.
C8_Path ==
    LET b == fn_in.vuln_info.v.bug_id
    IN  IF ~fn_in.output_dir.none THEN Append(fn_in.output_dir.v, "fixed.java")
        ELSE IF ~fn_in.results_dir.none THEN fn_in.results_dir.v \o <<b, "fixed.java">>
        ELSE <<"results", b, "fixed.java">>
\* No file other than those in S differs between the file system before and after.
C8_OnlyWrote(S) ==
    /\ DOMAIN fn_out.fs \subseteq DOMAIN fn_in.fs \cup S
    /\ \A p \in DOMAIN fn_in.fs \ S : p \in DOMAIN fn_out.fs /\ fn_out.fs[p] = fn_in.fs[p]
C8_Done == fn_pc = "returned" /\ fn_in.fn = "integrate_code"

\* C8 as stated: (False, None) and no file when an input is missing; otherwise
\* generated_code is written verbatim to fixed.java in the target directory
\* and (True, that path) is returned; before.java and after.java are never
\* written.
C8_Original ==
    C8_Done =>
        /\ C8_Missing =>
              ~fn_out.raised /\ fn_out.ret = <<FALSE, None>> /\ fn_out.fs = fn_in.fs
        /\ ~C8_Missing =>
              /\ ~fn_out.raised
              /\ fn_out.ret = <<TRUE, Some(C8_Path)>>
              /\ fn_out.fs[C8_Path] = fn_in.generated_code.v
        /\ \A b \in BugIds : C8_OnlyWrote(DOMAIN fn_out.fs \ {BeforeFile(b), AfterFile(b)})

\* C8 (amended): integrate_code returns (False, None) and writes no file when
\* generated_code is empty, vuln_info is empty, or vuln_info has no bug_id;
\* otherwise it creates the target directory (output_dir if given, else
\* results_dir/bug_id, else results/bug_id) and writes fixed.java there: when
\* the write succeeds the file holds generated_code verbatim and (True, that
\* path) is returned; when opening or writing the file raises, (False, None)
\* is returned; an error creating the directory propagates as an exception.
\* In no case is any file but that fixed.java touched, so before.java and
\* after.java are never written.
C8_IntegrateCode ==
    C8_Done =>
        /\ C8_Missing =>
              ~fn_out.raised /\ fn_out.ret = <<FALSE, None>> /\ fn_out.fs = fn_in.fs
        /\ (~C8_Missing /\ fn_in.io = "ok") =>
              /\ ~fn_out.raised
              /\ fn_out.ret = <<TRUE, Some(C8_Path)>>
              /\ fn_out.fs[C8_Path] = fn_in.generated_code.v
        /\ (~C8_Missing /\ fn_in.io \in {"open_raises", "write_raises"}) =>
              ~fn_out.raised /\ fn_out.ret = <<FALSE, None>>
        /\ (~C8_Missing /\ fn_in.io = "makedirs_raises") =>
              fn_out.raised /\ fn_out.fs = fn_in.fs
        /\ ~C8_Missing => C8_OnlyWrote({C8_Path})
        /\ \A b \in BugIds :
              /\ fn_out.fs[BeforeFile(b)] = fn_in.fs[BeforeFile(b)]
              /\ fn_out.fs[AfterFile(b)] = fn_in.fs[AfterFile(b)]

\* A call with output_dir set to the bug's dataset directory wrote fixed.java
\* beside before.java and returned its path.
C8_Witness ==
    /\ C8_Done
    /\ ~C8_Missing
    /\ fn_in.output_dir = Some(DatasetDir("b1"))
    /\ ~fn_in.results_dir.none
    /\ fn_out.ret = <<TRUE, Some(Append(DatasetDir("b1"), "fixed.java"))>>
    /\ fn_out.fs[Append(DatasetDir("b1"), "fixed.java")] = fn_in.generated_code.v

\* ------------------------------------ utils/evaluation.py: calculate_code_bleu

\* lib is what the CodeBLEU library does: status "import_error" (not
\* installed), "exception" (calc_codebleu raises), or "ok" with the score it
\* computes; scores are counted in units of 1/MaxScore.  Only
\* result['codebleu'] is returned.
Lib(status, score) == [status |-> status, score |-> score]

\* The component scores of the dictionary calc_codebleu returns, next to
\* 'codebleu' (the names main.py looks for at lines 358-365).
ComponentKeys ==
    {"ngram_match_score", "weighted_ngram_match_score", "syntax_match_score",
     "dataflow_match_score"}
NoComponents == [k \in ComponentKeys |-> 0]
\* The dictionary calc_codebleu returns (line 234): 'codebleu' is the mean of
\* the four components under the weights of line 238; the model takes the
\* components equal, so each of them equals the total.
LibResult(lib) == [codebleu |-> lib.score, component |-> [k \in ComponentKeys |-> lib.score]]
\* isinstance(x, dict) for what calculate_code_bleu returned.
IsDict(x) == "dict" \in DOMAIN x

\* calculate_code_bleu returning the whole dictionary of calc_codebleu.
calculate_code_bleu_full(lib) ==
    IF lib.status \in {"import_error", "exception"} THEN None
    ELSE [none |-> FALSE, v |-> lib.score, dict |-> LibResult(lib)]

calculate_code_bleu(lib) ==
    IF lib.status \in {"import_error", "exception"} THEN None ELSE Some(lib.score)

\* --------------------------------------------- evaluator.py: evaluate_fix

\* The result dictionary: its keys, code_quality, the keys of details and of
\* details['code_quality'], and the component scores details['code_quality']
\* holds (0 for a component it does not hold).
EvalResult(keys, code_quality, details_keys, cq_keys, components) ==
    [keys |-> keys, code_quality |-> code_quality,
     details_keys |-> details_keys, cq_keys |-> cq_keys, components |-> components]

\* Lines 125-134: the result once the score is there.
scored_result(keys, details_keys, score) ==
    IF IsDict(score)
    THEN EvalResult(keys, Some(score.dict.codebleu), details_keys,
                    {"codebleu"} \cup ComponentKeys, score.dict.component)
    ELSE EvalResult(keys, score, details_keys, {"code_bleu"}, NoComponents)
InitialEvalResult ==
    EvalResult({"bug_id", "code_quality", "details"}, None, {}, {}, NoComponents)

\* What a call of evaluate_fix did: returned ret or raised; the files it wrote
\* and the helpers it called.
EvalOutcome(raised, ret, files, calls) ==
    [called |-> TRUE, raised |-> raised, ret |-> ret, files |-> files, calls |-> calls]

\* Files written while loading the codes (lines 73-121), given how far the
\* call got.
original_files(env) == IF env.original = "ok" THEN {"original_code.java"} ELSE {}
fixed_files(env) == IF env.fixed = "ok" THEN {"generated_code.java"} ELSE {}
target_files(env) == IF env.target_save_ok THEN {"target_code.java"} ELSE {}

\* evaluate_fix as it would run if the return at line 168 were missing: the
\* Semgrep, test and _save_evaluation_result code after it (lines 170-278).
evaluate_fix_with_legacy_tail(env) ==
    IF ~env.makedirs_ok THEN EvalOutcome(TRUE, InitialEvalResult, {}, {})
    ELSE IF ~env.fixed_exists THEN EvalOutcome(FALSE, InitialEvalResult, {}, {})
    ELSE IF env.fixed # "ok"
         THEN EvalOutcome(FALSE, InitialEvalResult, original_files(env), {})
    ELSE IF env.target_code.none /\ env.after # "ok"
         THEN EvalOutcome(FALSE, InitialEvalResult,
                          original_files(env) \cup fixed_files(env), {})
    ELSE LET loaded == original_files(env) \cup fixed_files(env) \cup target_files(env)
             score == calculate_code_bleu(env.lib)
             res == scored_result({"bug_id", "code_quality", "details", "security"},
                                  {"code_quality", "security"}, score)
         IN  IF ~env.result_write_ok
             THEN EvalOutcome(TRUE, res, loaded, {"calculate_code_bleu"})
             ELSE EvalOutcome(FALSE, res,
                              loaded \cup {"codebleu_result.json",
                                           "evaluations/bug_id_evaluation.json"},
                              {"calculate_code_bleu", "run_semgrep",
                               "_save_evaluation_result"})

\* evaluate_fix as it would run if the handler of lines 83-85 returned the
\* result, the way the handler of lines 97-99 does.
evaluate_fix_original_required(env) ==
    IF ~env.makedirs_ok THEN EvalOutcome(TRUE, InitialEvalResult, {}, {})
    ELSE IF ~env.fixed_exists THEN EvalOutcome(FALSE, InitialEvalResult, {}, {})
    ELSE IF env.original # "ok" THEN EvalOutcome(FALSE, InitialEvalResult, {}, {})
    ELSE IF env.fixed # "ok"
         THEN EvalOutcome(FALSE, InitialEvalResult, original_files(env), {})
    ELSE IF env.target_code.none /\ env.after # "ok"
         THEN EvalOutcome(FALSE, InitialEvalResult,
                          original_files(env) \cup fixed_files(env), {})
    ELSE LET loaded == original_files(env) \cup fixed_files(env) \cup target_files(env)
             score == calculate_code_bleu(env.lib)
             res == scored_result({"bug_id", "code_quality", "details"},
                                  {"code_quality"}, score)
         IN  IF ~env.result_write_ok
             THEN EvalOutcome(TRUE, res, loaded, {"calculate_code_bleu"})
             ELSE EvalOutcome(FALSE, res, loaded \cup {"codebleu_result.json"},
                              {"calculate_code_bleu"})

\* VulnerabilityFixEvaluator.evaluate_fix(bug_id, fixed_file, original_file,
\* target_code).  env is the call's target_code and what the environment
\* does:
\*   makedirs_ok      os.makedirs(result_dir) succeeds (line 59, outside any try)
\*   fixed_exists     os.path.exists(fixed_file) (line 69)
\*   original         "ok", "read_fails" or "save_fails" (lines 74-85, ignored)
\*   fixed            "ok", "read_fails" or "save_fails" (lines 88-99)
\*   after            the after.java sibling: "ok", "missing", "unreadable"
\*   target_save_ok   target_code.java can be written (lines 117-121, ignored)
\*   lib              what the CodeBLEU library does (calculate_code_bleu)
\*   result_write_ok  codebleu_result.json can be written (lines 145-149)
\* When that last write raises, the handler at lines 151-166 calls
\* self._generate_html_report, which the class does not define: the
\* AttributeError leaves evaluate_fix.
evaluate_fix(env) ==
    IF ~env.makedirs_ok THEN EvalOutcome(TRUE, InitialEvalResult, {}, {})
    ELSE IF ~env.fixed_exists THEN EvalOutcome(FALSE, InitialEvalResult, {}, {})
    ELSE IF env.fixed # "ok"
         THEN EvalOutcome(FALSE, InitialEvalResult, original_files(env), {})
    ELSE IF env.target_code.none /\ env.after # "ok"
         THEN EvalOutcome(FALSE, InitialEvalResult,
                          original_files(env) \cup fixed_files(env), {})
    ELSE LET loaded == original_files(env) \cup fixed_files(env) \cup target_files(env)
             score == calculate_code_bleu(env.lib)
             res == scored_result({"bug_id", "code_quality", "details"},
                                  {"code_quality"}, score)
         IN  IF ~env.result_write_ok
             THEN EvalOutcome(TRUE, res, loaded, {"calculate_code_bleu"})
             ELSE EvalOutcome(FALSE, res, loaded \cup {"codebleu_result.json"},
                              {"calculate_code_bleu"})

\* -------------------------------------------------------- unit: evaluate_fix

Scores == 0..MaxScore
Libs == {Lib("import_error", 0), Lib("exception", 0)} \cup {Lib("ok", n) : n \in Scores}
EvalEnvs ==
    [makedirs_ok : BOOLEAN, fixed_exists : BOOLEAN,
     original : {"ok", "read_fails", "save_fails"},
     fixed : {"ok", "read_fails", "save_fails"},
     target_code : {None, Some(<<"x">>), Some(<<>>)},
     after : {"ok", "missing", "unreadable"},
     target_save_ok : BOOLEAN, lib : Libs, result_write_ok : BOOLEAN]

InitEvaluate ==
    /\ fn_in \in {[fn |-> "evaluate_fix", env |-> e] : e \in EvalEnvs}
    /\ fn_out = NotCalled
    /\ fn_pc = "call"
    /\ MainIdle

CallEvaluate ==
    /\ fn_pc = "call"
    /\ fn_in.fn = "evaluate_fix"
    /\ fn_out' = evaluate_fix(fn_in.env)
    /\ fn_pc' = "returned"
    /\ UNCHANGED <<fn_in, mainVars, bugVars>>

NextEvaluate == CallEvaluate

SpecEvaluate == InitEvaluate /\ [][NextEvaluate]_vars

\* ------------------------------------------------------------------- C7

\* C7: evaluate_fix computes CodeBLEU only: whenever it returns, the
\* dictionary's keys are exactly bug_id, code_quality and details; it never
\* calls run_semgrep or run_test, never sets security, functionality or
\* soundness, and never writes evaluations/<bug_id>_evaluation.json.
C7_CodeBleuOnly ==
    (fn_pc = "returned" /\ fn_in.fn = "evaluate_fix") =>
        /\ ~fn_out.raised => fn_out.ret.keys = {"bug_id", "code_quality", "details"}
        /\ fn_out.calls \subseteq {"calculate_code_bleu"}
        /\ fn_out.ret.keys \cap {"security", "functionality", "soundness"} = {}
        /\ fn_out.ret.details_keys \subseteq {"code_quality"}
        /\ "evaluations/bug_id_evaluation.json" \notin fn_out.files

\* A call that went all the way through the scoring and returned a score.
C7_Witness ==
    /\ fn_pc = "returned"
    /\ fn_in.fn = "evaluate_fix"
    /\ ~fn_out.raised
    /\ fn_out.ret.code_quality = Some(MaxScore)
    /\ fn_out.calls = {"calculate_code_bleu"}
    /\ "codebleu_result.json" \in fn_out.files

\* =========================================================================
\* run/graph/graph_builder.py: SecurityGraphBuilder
\* =========================================================================

\* A line number is 1..MaxLine; 0 stands for "no line" (the attribute is
\* absent or None; both are falsy and equal to no line of a node).
Lines == 1..MaxLine
MaybeLines == 0..MaxLine

\* A node of self.graph with the attributes the builder reads or writes;
\* edges are kept in insertion order, parallel edges included (MultiDiGraph).
Node(id, source, node_type, line, LINE_NUMBER) ==
    [id |-> id, source |-> source, node_type |-> node_type, line |-> line,
     LINE_NUMBER |-> LINE_NUMBER]
Edge(u, v, edge_type, source) ==
    [u |-> u, v |-> v, edge_type |-> edge_type, source |-> source]
NodeId(kind, n) == [kind |-> kind, n |-> n]
EmptyGraph == [nodes |-> <<>>, edges |-> <<>>]
NodeIds(g) == {g.nodes[i].id : i \in DOMAIN g.nodes}

\* The scope dictionary of build_graph_for_file (lines 105-110); the Joern
\* nodes of the model carry no METHOD_NAME, so scope['method_name'] is never
\* compared and is left out.
NoScope == [has_lines |-> FALSE, start_line |-> 0, end_line |-> 0]
Scopes ==
    {NoScope} \cup
    {[has_lines |-> TRUE, start_line |-> r[1], end_line |-> r[2]] :
        r \in {q \in Lines \X Lines : q[1] <= q[2]}}

\* --- _integrate_joern_graph (lines 189-233)

\* The scope filter of lines 201-209: the line range is compared with the
\* node's LINE_NUMBER attribute, when it has one.
joern_node_kept(attrs, scope) ==
    ~(/\ scope.has_lines
      /\ attrs.LINE_NUMBER # 0
      /\ (attrs.LINE_NUMBER < scope.start_line \/ attrs.LINE_NUMBER > scope.end_line))

\* The Joern graph read from cpg.graphml: node i has the attributes
\* joern_graph[i], and an edge leads from each node to the next one.
integrate_joern_graph(g, joern_graph, scope) ==
    LET all_nodes == [i \in 1..Len(joern_graph) |->
                        Node(NodeId("joern", i), "joern", "UNKNOWN",
                             joern_graph[i].line, joern_graph[i].LINE_NUMBER)]
        nodes == g.nodes \o SelectSeq(all_nodes, LAMBDA n : joern_node_kept(n, scope))
        ids == {nodes[i].id : i \in DOMAIN nodes}
        all_edges == [i \in 1..(Len(joern_graph) - 1) |->
                        Edge(NodeId("joern", i), NodeId("joern", i + 1), "UNKNOWN", "joern")]
    IN  [nodes |-> nodes,
         edges |-> g.edges \o SelectSeq(all_edges, LAMBDA e : e.u \in ids /\ e.v \in ids)]

\* --- _add_taint_flow_path (lines 319-371)

\* Lines 343-348 with the test for the last node made first.
taint_node_type_last_first(i, n) ==
    IF i = n THEN "SINK" ELSE IF i = 1 THEN "SOURCE" ELSE "TAINT_STEP"

\* node_type of the i-th (1-based) of n path nodes (lines 343-348).
taint_node_type(i, n) ==
    IF i = 1 THEN "SOURCE" ELSE IF i = n THEN "SINK" ELSE "TAINT_STEP"

RECURSIVE taint_flow_loop(_, _, _, _)
\* The loop of lines 332-371 from path node i on; prev is prev_node_id.
taint_flow_loop(g, path_nodes, i, prev) ==
    IF i > Len(path_nodes) THEN g
    ELSE LET node_id == NodeId("codeql_node", Len(g.nodes) + 1)
             node == Node(node_id, "codeql", taint_node_type(i, Len(path_nodes)),
                          path_nodes[i], 0)
             g1 == [nodes |-> Append(g.nodes, node),
                    edges |-> IF prev.none THEN g.edges
                              ELSE Append(g.edges,
                                          Edge(prev.v, node_id, "TAINT_FLOW", "codeql"))]
         IN  taint_flow_loop(g1, path_nodes, i + 1, Some(node_id))

\* A path is [has_nodes, nodes]: nodes lists the startLine of each path node.
add_taint_flow_path(g, path) ==
    IF path.has_nodes THEN taint_flow_loop(g, path.nodes, 1, None) ELSE g

RECURSIVE parse_codeql_taint_results(_, _)
\* _parse_codeql_taint_results (lines 305-314) over the paths of the results.
parse_codeql_taint_results(g, paths) ==
    IF paths = <<>> THEN g
    ELSE parse_codeql_taint_results(add_taint_flow_path(g, Head(paths)), Tail(paths))

\* --- _parse_semgrep_results (lines 410-466)

\* Lines 456-463 with the Joern nodes looked up by LINE_NUMBER.
pattern_match_edges_by_LINE_NUMBER(g, node_id, line) ==
    IF line = 0 THEN <<>>
    ELSE LET hits == SelectSeq(g.nodes,
                               LAMBDA n : n.source = "joern" /\ n.LINE_NUMBER = line)
         IN  [i \in 1..Len(hits) |-> Edge(node_id, hits[i].id, "PATTERN_MATCH", "semgrep")]

\* Lines 456-463: an edge from the pattern node to every node of the graph
\* with source 'joern' whose 'line' attribute equals the pattern's line.
pattern_match_edges(g, node_id, line) ==
    IF line = 0 THEN <<>>
    ELSE LET hits == SelectSeq(g.nodes, LAMBDA n : n.source = "joern" /\ n.line = line)
         IN  [i \in 1..Len(hits) |-> Edge(node_id, hits[i].id, "PATTERN_MATCH", "semgrep")]

\* The scope filter of lines 426-430.
semgrep_result_skipped(line, scope) ==
    /\ scope.has_lines
    /\ line # 0
    /\ (line < scope.start_line \/ line > scope.end_line)

RECURSIVE parse_semgrep_results(_, _, _)
\* The loop of lines 424-463; results lists the start line of each result.
parse_semgrep_results(g, results, scope) ==
    IF results = <<>> THEN g
    ELSE LET line == Head(results)
             node_id == NodeId("semgrep_pattern", Len(g.nodes) + 1)
             g1 == [nodes |-> Append(g.nodes,
                                     Node(node_id, "semgrep", "SECURITY_PATTERN", line, 0)),
                    edges |-> g.edges \o pattern_match_edges(g, node_id, line)]
         IN  IF semgrep_result_skipped(line, scope)
             THEN parse_semgrep_results(g, Tail(results), scope)
             ELSE parse_semgrep_results(g1, Tail(results), scope)

\* --- _run_command (lines 58-83)

RunOutcomes == {"exit0", "exit1", "exit2", "timeout", "oserror"}

\* The return code _run_command hands back.
run_command(outcome) ==
    CASE outcome = "exit0" -> 0
      [] outcome = "exit1" -> 1
      [] outcome = "exit2" -> 2
      [] outcome = "timeout" -> -1
      [] outcome = "oserror" -> -2

\* What _run_command itself logs (lines 79, 82).
run_command_log(step, outcome) ==
    IF outcome = "timeout" THEN <<[step |-> step, what |-> "command timeout"]>>
    ELSE IF outcome = "oserror" THEN <<[step |-> step, what |-> "command error"]>>
    ELSE <<>>

\* --- the builder during build_graph_for_file

\* The state of a call: self.graph, the tool steps entered, the commands
\* handed to subprocess.run, the errors logged, and whether an exception
\* left the call.
NewBuilder ==
    [graph |-> EmptyGraph, steps |-> <<>>, commands |-> <<>>, errors |-> <<>>,
     raised |-> FALSE]

Enter(b, step) == [b EXCEPT !.steps = Append(@, step)]
Ran(b, step, command, outcome) ==
    [b EXCEPT !.commands = Append(@, command),
              !.errors = @ \o run_command_log(step, outcome)]
Logged(b, step, what) == [b EXCEPT !.errors = Append(@, [step |-> step, what |-> what])]

\* _build_joern_cpg (lines 126-187).  The first statement of the try block
\* that does anything calls str.stripMargin (line 147), which Python strings
\* do not have: AttributeError, caught at line 186.  No Joern command is ever
\* run and _integrate_joern_graph is never reached from here.
build_joern_cpg(b) ==
    Logged(Enter(b, "joern"), "joern", "exception")

\* The try block of _build_codeql_taint_flow (lines 246-286).
codeql_try_block(b, env, scope) ==
    LET b1 == Ran(b, "codeql", "codeql database create", env.first)
        b2 == Ran(b1, "codeql", "codeql query run", env.second)
    IN  IF run_command(env.first) # 0 THEN Logged(b1, "codeql", "database create failed")
        ELSE IF run_command(env.second) # 0 THEN Logged(b2, "codeql", "query run failed")
        ELSE IF ~env.exists THEN Logged(b2, "codeql", "results file missing")
        ELSE IF ~env.parses THEN Logged(b2, "codeql", "results parse error")
        ELSE [b2 EXCEPT !.graph = parse_codeql_taint_results(@, env.paths)]

\* _build_codeql_taint_flow without the handler of lines 288-289.
build_codeql_taint_flow_unguarded(b, env, scope) ==
    IF env.exception THEN [Enter(b, "codeql") EXCEPT !.raised = TRUE]
    ELSE codeql_try_block(Enter(b, "codeql"), env, scope)

\* _build_codeql_taint_flow (lines 235-289); env.exception: a statement of
\* the try block raises (caught at line 288).
build_codeql_taint_flow(b, env, scope) ==
    IF env.exception THEN Logged(Enter(b, "codeql"), "codeql", "exception")
    ELSE codeql_try_block(Enter(b, "codeql"), env, scope)

\* _build_semgrep_patterns (lines 373-408); return codes 0 and 1 both count
\* as a finished run (line 397).
build_semgrep_patterns(b, env, scope) ==
    LET b0 == Enter(b, "semgrep")
        b1 == Ran(b0, "semgrep", "semgrep", env.first)
    IN  IF env.exception THEN Logged(b0, "semgrep", "exception")
        ELSE IF run_command(env.first) # 0 /\ run_command(env.first) # 1
        THEN Logged(b1, "semgrep", "run failed")
        ELSE IF ~env.exists THEN Logged(b1, "semgrep", "results file missing")
        ELSE IF ~env.parses THEN Logged(b1, "semgrep", "results parse error")
        ELSE [b1 EXCEPT !.graph = parse_semgrep_results(@, env.results, scope)]

\* ------------------------------------------------ the tools' outputs (inputs)

\* The attributes of a Joern node: its line number either under LINE_NUMBER
\* (what the filter of line 206 reads) or under 'line' (what line 458 reads).
JoernAttrs ==
    {[line |-> l, LINE_NUMBER |-> 0] : l \in Lines} \cup
    {[line |-> 0, LINE_NUMBER |-> l] : l \in Lines}

JoernGraphs(n) == SeqsUpTo(JoernAttrs, n)

\* A taint path with 1..n nodes, and a path without the 'nodes' key.
TaintPaths(n) ==
    {[has_nodes |-> TRUE, nodes |-> s] : s \in SeqsUpTo(MaybeLines, n) \ {<<>>}}
NoNodesPath == [has_nodes |-> FALSE, nodes |-> <<>>]

RECURSIVE NodePathLists(_)
\* The lists of paths with nodes that add at most n nodes.
NodePathLists(n) ==
    {<<>>} \cup
    UNION {{<<p>> \o rest : rest \in NodePathLists(n - Len(p.nodes))} : p \in TaintPaths(n)}

PathLists(n) == {<<NoNodesPath>>} \cup NodePathLists(n)

SemgrepResults(n) == SeqsUpTo(MaybeLines, n)

\* Room left in the graph of a call.
Room(b) == MaxGraphNodes - Len(b.graph.nodes)

NoEnv ==
    [used |-> FALSE, exception |-> FALSE, first |-> "exit0", second |-> "exit0",
     exists |-> FALSE, parses |-> FALSE, paths |-> <<>>, results |-> <<>>]

ToolEnv(exception, first, second, exists, parses, paths, results) ==
    [used |-> TRUE, exception |-> exception, first |-> first, second |-> second,
     exists |-> exists, parses |-> parses, paths |-> paths, results |-> results]

\* How the run went, without what the tool put out.
HowItWent(env) == [env EXCEPT !.paths = <<>>, !.results = <<>>]

\* How a run of the CodeQL step can go.
CodeqlEnvs(n) ==
    {ToolEnv(TRUE, "exit0", "exit0", FALSE, FALSE, <<>>, <<>>)}
    \cup {ToolEnv(FALSE, o, "exit0", FALSE, FALSE, <<>>, <<>>) : o \in RunOutcomes \ {"exit0"}}
    \cup {ToolEnv(FALSE, "exit0", o, FALSE, FALSE, <<>>, <<>>) : o \in RunOutcomes \ {"exit0"}}
    \cup {ToolEnv(FALSE, "exit0", "exit0", e, FALSE, <<>>, <<>>) : e \in BOOLEAN}
    \cup {ToolEnv(FALSE, "exit0", "exit0", TRUE, TRUE, ps, <<>>) : ps \in PathLists(n)}

\* How a run of the Semgrep step can go.
SemgrepEnvs(n) ==
    {ToolEnv(TRUE, "exit0", "exit0", FALSE, FALSE, <<>>, <<>>)}
    \cup {ToolEnv(FALSE, o, "exit0", FALSE, FALSE, <<>>, <<>>) : o \in RunOutcomes}
    \cup {ToolEnv(FALSE, o, "exit0", TRUE, FALSE, <<>>, <<>>) : o \in {"exit0", "exit1"}}
    \cup {ToolEnv(FALSE, o, "exit0", TRUE, TRUE, <<>>, rs) :
            o \in {"exit0", "exit1"}, rs \in SemgrepResults(n)}

\* ------------------------------------------------ unit: build_graph_for_file

InitBuild ==
    /\ fn_in \in {[fn |-> "build_graph_for_file", use_joern |-> j, use_codeql |-> c,
                   use_semgrep |-> s, scope |-> sc, codeql |-> NoEnv, semgrep |-> NoEnv] :
                     j \in BOOLEAN, c \in BOOLEAN, s \in BOOLEAN, sc \in Scopes}
    /\ fn_out = NotCalled
    /\ fn_pc = "call"
    /\ MainIdle

\* Lines 98-110: a new graph, the temporary directory, the scope.
BuildStart ==
    /\ fn_pc = "call"
    /\ fn_in.fn = "build_graph_for_file"
    /\ fn_out' = NewBuilder
    /\ fn_pc' = "joern"
    /\ UNCHANGED <<fn_in, mainVars, bugVars>>

AfterStep(next) == fn_pc' = IF fn_out'.raised THEN "raised" ELSE next

\* Lines 113-114.
JoernStep ==
    /\ fn_pc = "joern"
    /\ fn_out' = IF fn_in.use_joern THEN build_joern_cpg(fn_out) ELSE fn_out
    /\ AfterStep("codeql")
    /\ UNCHANGED <<fn_in, mainVars, bugVars>>

\* Lines 117-118.
CodeqlStep ==
    /\ fn_pc = "codeql"
    /\ IF fn_in.use_codeql
       THEN \E env \in CodeqlEnvs(MaxToolOutput) :
               /\ fn_out' = build_codeql_taint_flow(fn_out, env, fn_in.scope)
               /\ fn_in' = [fn_in EXCEPT !.codeql = HowItWent(env)]
       ELSE UNCHANGED <<fn_in, fn_out>>
    /\ AfterStep("semgrep")
    /\ UNCHANGED <<mainVars, bugVars>>

\* Lines 121-122.
SemgrepStep ==
    /\ fn_pc = "semgrep"
    /\ IF fn_in.use_semgrep
       THEN \E env \in SemgrepEnvs(MaxToolOutput) :
               /\ fn_out' = build_semgrep_patterns(fn_out, env, fn_in.scope)
               /\ fn_in' = [fn_in EXCEPT !.semgrep = HowItWent(env)]
       ELSE UNCHANGED <<fn_in, fn_out>>
    /\ AfterStep("return")
    /\ UNCHANGED <<mainVars, bugVars>>

\* Line 124: return self.graph.
BuildReturn ==
    /\ fn_pc = "return"
    /\ fn_pc' = "returned"
    /\ UNCHANGED <<fn_in, fn_out, mainVars, bugVars>>

NextBuild == BuildStart \/ JoernStep \/ CodeqlStep \/ SemgrepStep \/ BuildReturn

SpecBuild == InitBuild /\ [][NextBuild]_vars

\* ------------------------------------------------------------------- C3

\* The enabled tools in the order Joern, CodeQL, Semgrep.
C3_Order ==
    (IF fn_in.use_joern THEN <<"joern">> ELSE <<>>)
        \o (IF fn_in.use_codeql THEN <<"codeql">> ELSE <<>>)
        \o (IF fn_in.use_semgrep THEN <<"semgrep">> ELSE <<>>)

\* The tool of a command handed to subprocess.run.
C3_Tool(command) == IF command = "semgrep" THEN "semgrep" ELSE "codeql"

\* The run of a tool step failed: an exception, a non-zero exit code (other
\* than Semgrep's 1), a timeout, or no output file.
C3_Failure(tool, env) ==
    /\ env.used
    /\ \/ env.exception
       \/ env.first \notin (IF tool = "semgrep" THEN {"exit0", "exit1"} ELSE {"exit0"})
       \/ tool = "codeql" /\ env.second # "exit0"
       \/ ~env.exists

C3_LoggedFor(tool) == \E i \in DOMAIN fn_out.errors : fn_out.errors[i].step = tool

InitMerge ==
    /\ fn_in \in {[fn |-> "merge", scope |-> sc, paths |-> <<>>] : sc \in Scopes}
    /\ fn_out = NewBuilder
    /\ fn_pc = "integrate_joern"
    /\ MainIdle

IntegrateJoernGraph ==
    /\ fn_pc = "integrate_joern"
    /\ \E joern_graph \in JoernGraphs(Room(fn_out)) :
          fn_out' = [fn_out EXCEPT
                        !.graph = integrate_joern_graph(@, joern_graph, fn_in.scope)]
    /\ fn_pc' = "parse_codeql"
    /\ UNCHANGED <<fn_in, mainVars, bugVars>>

ParseCodeqlTaintResults ==
    /\ fn_pc = "parse_codeql"
    /\ \E paths \in PathLists(Room(fn_out)) :
          /\ fn_out' = [fn_out EXCEPT !.graph = parse_codeql_taint_results(@, paths)]
          /\ fn_in' = [fn_in EXCEPT !.paths = paths]
    /\ fn_pc' = "parse_semgrep"
    /\ UNCHANGED <<mainVars, bugVars>>

ParseSemgrepResults ==
    /\ fn_pc = "parse_semgrep"
    /\ \E results \in SemgrepResults(Room(fn_out)) :
          fn_out' = [fn_out EXCEPT
                        !.graph = parse_semgrep_results(@, results, fn_in.scope)]
    /\ fn_pc' = "merged"
    /\ UNCHANGED <<fn_in, mainVars, bugVars>>

NextMerge == IntegrateJoernGraph \/ ParseCodeqlTaintResults \/ ParseSemgrepResults

SpecMerge == InitMerge /\ [][NextMerge]_vars

\* ------------------------------------------------------------------- C4

C4_Nodes(source) ==
    {fn_out.graph.nodes[i] : i \in {k \in DOMAIN fn_out.graph.nodes :
                                        fn_out.graph.nodes[k].source = source}}

\* The number of edges of the given type from node u to node v.
C4_EdgeCount(u, v, edge_type) ==
    Cardinality({i \in DOMAIN fn_out.graph.edges :
                    /\ fn_out.graph.edges[i].u = u.id
                    /\ fn_out.graph.edges[i].v = v.id
                    /\ fn_out.graph.edges[i].edge_type = edge_type})

C4_Joined(a, b) ==
    \E i \in DOMAIN fn_out.graph.edges :
        \/ fn_out.graph.edges[i].u = a.id /\ fn_out.graph.edges[i].v = b.id
        \/ fn_out.graph.edges[i].u = b.id /\ fn_out.graph.edges[i].v = a.id

\* The Joern node is on line l, whichever attribute holds its line number.
C4_OnLine(j, l) == l # 0 /\ (j.LINE_NUMBER = l \/ j.line = l)

USE_GRAPH_INFO == TRUE      \* config.py

\* The flags of the command line that decide what process_bug does.
\* --use_graph, --joern, --codeql and --semgrep are store_true flags whose
\* default is already true; --no_evaluate stores False in evaluate.
Flags == {"--use_graph", "--joern", "--no_evaluate"}
parse_args(av) ==
    [use_graph |-> IF "--use_graph" \in av THEN TRUE ELSE USE_GRAPH_INFO,
     joern |-> IF "--joern" \in av THEN TRUE ELSE TRUE,
     codeql |-> TRUE,
     semgrep |-> TRUE,
     evaluate |-> "--no_evaluate" \notin av]
args == parse_args(argv)

\* ------------------------------------------------------ main.py: process_bug

BugName == <<"b1", "b2", "b3", "b4">>
IdList(n) == [i \in 1..n |-> BugName[i]]
bug_id == bug_ids[idx]

\* The tools build_graph_for_file runs, in its order (graph_builder.py 112-122).
tool_order(use_joern, use_codeql, use_semgrep) ==
    (IF use_joern THEN <<"joern">> ELSE <<>>)
        \o (IF use_codeql THEN <<"codeql">> ELSE <<>>)
        \o (IF use_semgrep THEN <<"semgrep">> ELSE <<>>)

\* The graph_info argument of user_prompt.format (prompt_builder.py 107).
graph_info_slot(text) == IF USE_GRAPH_INFO /\ Truthy(text) THEN text.v ELSE <<>>

\* ------------------------------------------ prompt_builder.py: PromptBuilder

\* Prompt texts are sequences of tokens; a template holds the replacement
\* fields of str.format ({vulnerable_method}, {cwe_id}, {description},
\* {graph_info}) as tokens of their own.

\* The system prompt build_prompt uses for model_size '1b' (line 99).
ShortSystemPrompt == <<"short_system_prompt">>
\* _get_default_system_prompt and _get_default_user_prompt (lines 59-80).
DefaultSystemPrompt == <<"default_system_prompt">>
DefaultUserPrompt ==
    <<"code:", "{vulnerable_method}", "cwe:", "{cwe_id}", "description:",
      "{description}", "{graph_info}", "fix">>

\* What one token of the template becomes; str.format renders a None
\* value as 'None'.
format_field(token, vuln_info_, graph_info_text_) ==
    LET str(x) == IF x.none THEN <<"None">> ELSE x.v
    IN  CASE token = "{vulnerable_method}" -> str(vuln_info_.vulnerable_method)
          [] token = "{cwe_id}" -> str(vuln_info_.cwe_id)
          [] token = "{description}" -> str(vuln_info_.description)
          [] token = "{graph_info}" -> graph_info_slot(graph_info_text_)
          [] OTHER -> <<token>>

RECURSIVE user_prompt_format(_, _, _)
\* user_prompt.format(...) of lines 102-108.
user_prompt_format(template, vuln_info_, graph_info_text_) ==
    IF template = <<>> THEN <<>>
    ELSE format_field(Head(template), vuln_info_, graph_info_text_)
           \o user_prompt_format(Tail(template), vuln_info_, graph_info_text_)

\* build_prompt with the adjustment for model_size '1b' left out.
build_prompt_from_template(builder, vuln_info_, graph_info_text_, model_size) ==
    [system |-> builder.system_prompt,
     user |-> user_prompt_format(builder.user_prompt, vuln_info_, graph_info_text_)]

\* PromptBuilder.build_prompt (lines 82-113); builder holds the two
\* templates loaded by __init__.
build_prompt(builder, vuln_info_, graph_info_text_, model_size) ==
    [system |-> IF model_size = "1b" THEN ShortSystemPrompt ELSE builder.system_prompt,
     user |-> user_prompt_format(builder.user_prompt, vuln_info_, graph_info_text_)]

\* PromptBuilder.build_chat_completion_messages (lines 115-134).
build_chat_completion_messages(builder, vuln_info_, graph_info_text_, model_size) ==
    LET prompt == build_prompt(builder, vuln_info_, graph_info_text_, model_size)
    IN  <<[role |-> "system", content |-> prompt.system],
          [role |-> "user", content |-> prompt.user]>>

\* PromptBuilder.build_prompt_text (lines 136-160).
build_prompt_text(builder, vuln_info_, graph_info_text_, model_size) ==
    LET prompt == build_prompt(builder, vuln_info_, graph_info_text_, model_size)
    IN  <<"[SYSTEM]">> \o prompt.system \o <<"[USER]">> \o prompt.user
          \o <<"[ASSISTANT]">>

\* LLMInference.generate (inference.py 41-62): the backend called and the
\* prompt it is given; no backend for an unknown model type.
generate(model_type, prompt_messages, prompt_text) ==
    IF model_type = "openai" THEN [backend |-> "_generate_openai", form |-> "messages"]
    ELSE IF model_type = "anthropic"
         THEN [backend |-> "_generate_anthropic", form |-> "messages"]
    ELSE IF model_type = "local_slm"
         THEN [backend |-> "_generate_local_slm", form |-> "prompt_text"]
    ELSE [backend |-> "none", form |-> "none"]

\* ------------------------------------- unit: the prompt of process_bug

\* The templates __init__ may have loaded: the files' texts (whose fields
\* are those build_prompt fills) or the defaults.
PromptBuilders ==
    [system_prompt : {DefaultSystemPrompt, <<"system_prompt.txt">>},
     user_prompt : {DefaultUserPrompt, <<"{vulnerable_method}", "{graph_info}">>}]

\* model_type and model_size range over the choices of the command line
\* (main.py 56-61); nothing is built yet.
InitPrompt ==
    /\ fn_in \in
          [fn : {"prompt"},
           model_type : {"openai", "anthropic", "local_slm"},
           model_size : {"1b", "10b", "large"},
           builder : PromptBuilders,
           vuln_info : [vulnerable_method : {None, Some(<<"x">>)},
                        cwe_id : {None, Some(<<"79">>)},
                        description : {Some(<<"d">>)}],
           graph_info_text : {None, Some(<<>>), Some(<<"g">>)}]
    /\ fn_out = [messages |-> None, prompt_text |-> None, built |-> <<>>,
                 saved |-> "nothing", calls |-> <<>>]
    /\ fn_pc = "build"
    /\ MainIdle

\* main.py 169-183: one of the two builders is called.
BuildPromptForm ==
    /\ fn_pc = "build"
    /\ fn_in.fn = "prompt"
    /\ fn_out' =
          IF fn_in.model_type \in {"openai", "anthropic"}
          THEN [fn_out EXCEPT
                  !.messages = Some(build_chat_completion_messages(
                                        fn_in.builder, fn_in.vuln_info,
                                        fn_in.graph_info_text, fn_in.model_size)),
                  !.prompt_text = None,
                  !.built = Append(@, "build_chat_completion_messages")]
          ELSE [fn_out EXCEPT
                  !.messages = None,
                  !.prompt_text = Some(build_prompt_text(
                                           fn_in.builder, fn_in.vuln_info,
                                           fn_in.graph_info_text, fn_in.model_size)),
                  !.built = Append(@, "build_prompt_text")]
    /\ fn_pc' = "save"
    /\ UNCHANGED <<fn_in, mainVars, bugVars>>

\* main.py 185-192: the prompt is written to <bug_id>_prompt.json, the
\* messages if they are truthy and {"text": prompt_text} otherwise; the
\* write is outside any try of these lines.
SavePrompt ==
    /\ fn_pc = "save"
    /\ fn_in.fn = "prompt"
    /\ \E io \in {"ok", "fails"} :
          IF io = "fails" THEN fn_pc' = "raised" /\ UNCHANGED fn_out
          ELSE /\ fn_out' = [fn_out EXCEPT
                               !.saved = IF ~fn_out.messages.none /\ fn_out.messages.v # <<>>
                                         THEN "messages" ELSE "text"]
               /\ fn_pc' = "generate"
    /\ UNCHANGED <<fn_in, mainVars, bugVars>>

\* main.py 195-196: inference.generate(messages, prompt_text).
GeneratePrompt ==
    /\ fn_pc = "generate"
    /\ fn_in.fn = "prompt"
    /\ fn_out' = [fn_out EXCEPT
                    !.calls = Append(@, generate(fn_in.model_type, fn_out.messages,
                                                 fn_out.prompt_text))]
    /\ fn_pc' = "generated"
    /\ UNCHANGED <<fn_in, mainVars, bugVars>>

NextPrompt == BuildPromptForm \/ SavePrompt \/ GeneratePrompt

SpecPrompt == InitPrompt /\ [][NextPrompt]_vars

\* The gates of process_bug (lines 109, 198, 212, 234).
no_vuln_info(v) == ~TruthyDict(v)
no_response_only_none(r) == r.none
no_response(r) == ~Truthy(r)
no_generated_code(c) == ~Truthy(c)
integration_failed(ok, path) == ~ok \/ ~Truthy(path)

\* "return result" after a failed gate (lines 111, 200, 214, 236).
process_bug_returns == pc' = "store" /\ idx' = idx
\* The exception leaves process_bug: main's handler (lines 320-321) logs it
\* and the loop goes on with the next bug id.
process_bug_reraises == pc' = "loop" /\ idx' = idx + 1
\* The handler of process_bug (lines 265-267): log, return result.
process_bug_except == pc' = "store" /\ idx' = idx

GateFails == failed' = failed \cup {bug_id} /\ process_bug_returns
Raises == failed' = failed \cup {bug_id} /\ process_bug_except
GoesOn(next) == pc' = next /\ idx' = idx /\ failed' = failed

\* result["stages"] replaced by a dictionary holding the one stage.
StageDone_alone(stage) == [result EXCEPT !.stages = {stage}]
\* result["stages"][stage] = True (lines 112, 158, 223, 246).
StageDone(stage) == [result EXCEPT !.stages = @ \cup {stage}]

\* process_bug has returned (or main's handler has run): its locals are gone.
LocalsDropped ==
    /\ result' = NewResult
    /\ vuln_info' = None
    /\ graph_info_text' = None
    /\ prompt_graph_info' = None
    /\ response' = None
    /\ generated_code' = None
    /\ fixed_file' = None
    /\ ran' = <<>>
    /\ tools' = <<>>
    /\ written' = {}

\* main, lines 311-313: the next bug id is handed to process_bug, which
\* creates its result dictionary (lines 94-98).
StartBug ==
    /\ pc = "loop"
    /\ idx <= Len(bug_ids)
    /\ pc' = "extract"
    /\ LocalsDropped
    /\ UNCHANGED <<unitVars, argv, bug_ids, idx, all_results, file, write_status, failed>>

\* Step 1 (lines 104-114): get_complete_extraction returns a record, returns
\* None (unknown id), or raises.
Extraction ==
    /\ pc = "extract"
    /\ ran' = Append(ran, "extraction")
    /\ \E out \in {"record", "none", "raises"} :
          /\ vuln_info' = IF out = "record"
                          THEN Some(Dict({"bug_id", "before_file", "method_name"}, bug_id))
                          ELSE None
          /\ IF out = "raises" THEN Raises /\ UNCHANGED result
             ELSE IF no_vuln_info(vuln_info') THEN GateFails /\ UNCHANGED result
             ELSE GoesOn("graph") /\ result' = StageDone("extraction")
    /\ UNCHANGED <<unitVars, argv, bug_ids, all_results, file, write_status,
                   graph_info_text, prompt_graph_info, response, generated_code,
                   fixed_file, tools, written>>

GraphTexts == {<<>>, <<"x">>}

\* Step 2 (lines 116-159), when args.use_graph: the tools run, the graph is
\* saved (save_graph logs its own errors), the text is formatted and written.
\* io: "ok", "raises" (GraphProcessor or the write of the text file raises).
GraphConstruction ==
    /\ pc = "graph"
    /\ IF args.use_graph
       THEN /\ ran' = Append(ran, "graph_construction")
            /\ tools' = tool_order(args.joern, args.codeql, args.semgrep)
            /\ \E saved \in BOOLEAN, text \in GraphTexts, io \in {"ok", "raises"} :
                  LET graphml == IF saved THEN {"graphs/graph.graphml"} ELSE {}
                  IN  IF io = "raises"
                      THEN /\ Raises
                           /\ written' = written \cup graphml
                           /\ UNCHANGED <<result, graph_info_text>>
                      ELSE /\ GoesOn("prompt")
                           /\ graph_info_text' = Some(text)
                           /\ written' = written \cup graphml \cup {"graphs/graph_info.txt"}
                           /\ result' = StageDone("graph_building")
       ELSE /\ GoesOn("prompt")
            /\ UNCHANGED <<ran, tools, written, result, graph_info_text>>
    /\ UNCHANGED <<unitVars, argv, bug_ids, all_results, file, write_status,
                   vuln_info, prompt_graph_info, response, generated_code, fixed_file>>

\* Step 3 (lines 164-192): the prompt is built and saved.  io: "ok",
\* "raises" (str.format or the write raises).
PromptConstruction ==
    /\ pc = "prompt"
    /\ ran' = Append(ran, "prompt_construction")
    /\ \E io \in {"ok", "raises"} :
          IF io = "raises"
          THEN Raises /\ UNCHANGED <<prompt_graph_info, written>>
          ELSE /\ GoesOn("llm")
               /\ prompt_graph_info' = Some(graph_info_slot(graph_info_text))
               /\ written' = written \cup {"prompts/prompt.json"}
    /\ UNCHANGED <<unitVars, argv, bug_ids, all_results, file, write_status, result,
                   vuln_info, graph_info_text, response, generated_code, fixed_file, tools>>

\* What the model may answer: nothing, an empty text, a text without a
\* block, an empty block, a java block.
LLMResponses ==
    {None, Some(<<>>), Some(<<"x">>), Some(<<"F", "F">>), Some(<<"F", "J", "s", "x", "F">>)}

\* Step 4 (lines 194-200): LLMInference is built (may raise) and generate is
\* called; an empty response ends the processing.
LLMCall ==
    /\ pc = "llm"
    /\ ran' = Append(ran, "llm_call")
    /\ \E r \in LLMResponses, io \in {"ok", "raises"} :
          IF io = "raises" THEN Raises /\ UNCHANGED response
          ELSE /\ response' = r
               /\ IF no_response(r) THEN GateFails ELSE GoesOn("code")
    /\ UNCHANGED <<unitVars, argv, bug_ids, all_results, file, write_status, result,
                   vuln_info, graph_info_text, prompt_graph_info, generated_code,
                   fixed_file, tools, written>>

\* Lines 202-224: the response is saved, the code extracted from it; empty
\* code ends the processing, otherwise the code is saved.
CodeExtraction ==
    /\ pc = "code"
    /\ ran' = Append(ran, "code_extraction")
    /\ \E io \in {"ok", "response_write_raises", "code_write_raises"} :
          IF io = "response_write_raises"
          THEN Raises /\ UNCHANGED <<generated_code, written, result>>
          ELSE /\ generated_code' = extract_code_from_response(response)
               /\ IF no_generated_code(generated_code')
                  THEN /\ GateFails
                       /\ written' = written \cup {"responses/response.txt"}
                       /\ UNCHANGED result
                  ELSE IF io = "code_write_raises"
                  THEN /\ Raises
                       /\ written' = written \cup {"responses/response.txt"}
                       /\ UNCHANGED result
                  ELSE /\ GoesOn(IF args.evaluate THEN "integrate" ELSE "finish")
                       /\ written' = written \cup {"responses/response.txt",
                                                   "generated_code/code.java"}
                       /\ result' = StageDone("inference")
    /\ UNCHANGED <<unitVars, argv, bug_ids, all_results, file, write_status,
                   vuln_info, graph_info_text, prompt_graph_info, response,
                   fixed_file, tools>>

EmptyFS == [q \in {} |-> <<>>]

\* Lines 230-236: integrate_code on a CodeIntegrator(args.results_dir).
Integration ==
    /\ pc = "integrate"
    /\ ran' = Append(ran, "integration")
    /\ \E io \in IntegrateIO :
          LET out == integrate_code(Some(<<"res">>), generated_code, vuln_info,
                                    None, io, EmptyFS)
          IN  /\ written' = written \cup
                               (IF DOMAIN out.fs # {} THEN {"fixed.java"} ELSE {})
              /\ IF out.raised THEN Raises /\ UNCHANGED fixed_file
                 ELSE /\ fixed_file' = out.ret[2]
                      /\ IF integration_failed(out.ret[1], out.ret[2])
                         THEN GateFails ELSE GoesOn("evaluate")
    /\ UNCHANGED <<unitVars, argv, bug_ids, all_results, file, write_status, result,
                   vuln_info, graph_info_text, prompt_graph_info, response,
                   generated_code, tools>>

\* The environments evaluate_fix meets in process_bug: fixed.java was just
\* written, and target_code is complete_target_method, a string.
PipelineEvalEnvs ==
    {e \in EvalEnvs : e.fixed_exists /\ ~e.target_code.none /\ e.after = "ok"}
\* What evaluate_fix can do there.
ScoringOutcomes == {evaluate_fix(e) : e \in PipelineEvalEnvs}

\* Lines 238-254 with the evaluation kept only when it carries a score.
Scoring_scored_only ==
    /\ pc = "evaluate"
    /\ ran' = Append(ran, "scoring")
    /\ \E out \in ScoringOutcomes :
              /\ written' = written \cup out.files
              /\ IF out.raised THEN Raises /\ UNCHANGED result
                 ELSE /\ GoesOn("finish")
                      /\ result' = IF out.ret.code_quality.none
                                   THEN StageDone("evaluation")
                                   ELSE [StageDone("evaluation") EXCEPT
                                            !.evaluation = Some(out.ret)]
    /\ UNCHANGED <<unitVars, argv, bug_ids, all_results, file, write_status,
                   vuln_info, graph_info_text, prompt_graph_info, response,
                   generated_code, fixed_file, tools>>

\* Lines 238-254: evaluate_fix; its result is stored whatever it holds.
Scoring ==
    /\ pc = "evaluate"
    /\ ran' = Append(ran, "scoring")
    /\ \E out \in ScoringOutcomes :
              /\ written' = written \cup out.files
              /\ IF out.raised THEN Raises /\ UNCHANGED result
                 ELSE /\ GoesOn("finish")
                      /\ result' = [StageDone("evaluation") EXCEPT
                                       !.evaluation = Some(out.ret)]
    /\ UNCHANGED <<unitVars, argv, bug_ids, all_results, file, write_status,
                   vuln_info, graph_info_text, prompt_graph_info, response,
                   generated_code, fixed_file, tools>>

\* Lines 256-263: success is recorded and the result returned.
Finish ==
    /\ pc = "finish"
    /\ result' = [result EXCEPT !.success = TRUE]
    /\ pc' = "store"
    /\ UNCHANGED <<unitVars, argv, bug_ids, idx, all_results, file, write_status, failed,
                   vuln_info, graph_info_text, prompt_graph_info, response,
                   generated_code, fixed_file, ran, tools, written>>

\* ------------------------------------------------------------ main.py: main

Put(f, k, v) == [x \in DOMAIN f \cup {k} |-> IF x = k THEN v ELSE f[x]]
OnDisk(a) == [state |-> "written", results |-> a.results, summary |-> a.summary]
Truncated == [state |-> "truncated", results |-> <<>>, summary |-> None]

\* The file after json.dump of a: written, or, when the write raises, left as
\* it was (open failed) or cut short (the dump failed).
dump_all_results(a, io, old) ==
    IF io = "ok" THEN OnDisk(a) ELSE IF io = "open_raises" THEN old ELSE Truncated

\* all_results.json is written before the result is put in all_results.
StoreResult_write_first ==
    /\ pc = "store"
    /\ all_results' = [all_results EXCEPT !.results = Put(@, bug_id, result)]
    /\ \E io \in {"ok", "open_raises", "dump_raises"} :
          /\ file' = dump_all_results(all_results, io, file)
          /\ write_status' = IF io = "ok" THEN "ok" ELSE "raised"
    /\ idx' = idx + 1
    /\ pc' = "loop"
    /\ LocalsDropped
    /\ UNCHANGED <<unitVars, argv, bug_ids, failed>>

\* Lines 314-321: the result is put in all_results, all_results.json is
\* rewritten; an exception of the write is logged and the loop goes on.
StoreResult ==
    /\ pc = "store"
    /\ all_results' = [all_results EXCEPT !.results = Put(@, bug_id, result)]
    /\ \E io \in {"ok", "open_raises", "dump_raises"} :
          /\ file' = dump_all_results(all_results', io, file)
          /\ write_status' = IF io = "ok" THEN "ok" ELSE "raised"
    /\ idx' = idx + 1
    /\ pc' = "loop"
    /\ LocalsDropped
    /\ UNCHANGED <<unitVars, argv, bug_ids, failed>>

\* The results of the bug ids (all_results["results"].get(bug_id, {})).
HasResult(a, b) == b \in DOMAIN a.results
Succeeded(a, b) == HasResult(a, b) /\ a.results[b].success
\* eval_result is truthy: the result has a non-empty "evaluation".
Evaluated(a, b) == HasResult(a, b) /\ ~a.results[b].evaluation.none
Scored(a, b) == Evaluated(a, b) /\ ~a.results[b].evaluation.v.code_quality.none

RECURSIVE SumScores(_, _, _)
SumScores(a, ids, k) ==
    IF k = 0 THEN 0
    ELSE SumScores(a, ids, k - 1)
           + (IF Scored(a, ids[k]) THEN a.results[ids[k]].evaluation.v.code_quality.v ELSE 0)

Count(ids, P(_)) == Cardinality({k \in 1..Len(ids) : P(ids[k])})

\* A quotient num/den, kept as a fraction; 0.0 is 0/1.
Frac(num, den) == [num |-> num, den |-> den]

\* Lines 336-369: eval_count counts the results that hold an evaluation,
\* code_quality_sum adds the scores that are not None.
code_quality_avg(a, ids) ==
    LET eval_count == Count(ids, LAMBDA b : Evaluated(a, b))
        code_quality_sum == SumScores(a, ids, Len(ids))
    IN  IF eval_count > 0 THEN Frac(code_quality_sum, eval_count) ELSE Frac(0, 1)

RECURSIVE component_sum(_, _, _, _)
\* Lines 355-365: the sum of one component over the evaluated bugs whose
\* details['code_quality'] holds it.
component_sum(a, ids, key, k) ==
    IF k = 0 THEN 0
    ELSE component_sum(a, ids, key, k - 1)
           + (IF Evaluated(a, ids[k]) /\ key \in a.results[ids[k]].evaluation.v.cq_keys
              THEN a.results[ids[k]].evaluation.v.components[key] ELSE 0)

\* Lines 368-373: a component's sum over eval_count.
component_avg(a, ids, key) ==
    LET eval_count == Count(ids, LAMBDA b : Evaluated(a, b))
    IN  IF eval_count > 0 THEN Frac(component_sum(a, ids, key, Len(ids)), eval_count)
        ELSE Frac(0, 1)

\* Lines 323-334 and 367-373: the summary.
summary_of(a, ids) ==
    [total |-> Len(ids),
     success |-> Count(ids, LAMBDA b : Succeeded(a, b)),
     code_quality_avg |-> code_quality_avg(a, ids),
     ngram_match_avg |-> component_avg(a, ids, "ngram_match_score"),
     weighted_ngram_match_avg |-> component_avg(a, ids, "weighted_ngram_match_score"),
     syntax_match_avg |-> component_avg(a, ids, "syntax_match_score"),
     dataflow_match_avg |-> component_avg(a, ids, "dataflow_match_score")]

\* Lines 323-379, after the loop: the summary is computed, put in
\* all_results and all_results.json is written a last time.
Summarize ==
    /\ pc = "loop"
    /\ idx > Len(bug_ids)
    /\ all_results' = [all_results EXCEPT !.summary = Some(summary_of(all_results, bug_ids))]
    /\ file' = OnDisk(all_results')
    /\ pc' = "done"
    /\ UNCHANGED <<unitVars, argv, bug_ids, idx, write_status, failed, bugVars>>

Init ==
    /\ argv \in SUBSET Flags
    /\ bug_ids \in {IdList(n) : n \in 0..MaxBugs}
    /\ idx = 1
    /\ pc = "loop"
    /\ all_results = [results |-> <<>>, summary |-> None]
    /\ file = NoFile
    /\ write_status = "none"
    /\ failed = {}
    /\ FreshBug
    /\ UnitIdle

Next ==
    \/ StartBug
    \/ Extraction
    \/ GraphConstruction
    \/ PromptConstruction
    \/ LLMCall
    \/ CodeExtraction
    \/ Integration
    \/ Scoring
    \/ Finish
    \/ StoreResult
    \/ Summarize

Spec == Init /\ [][Next]_vars

\* ------------------------------------------------------------------- C1

\* The stages in their fixed order, for the options of this run.
C1_Order ==
    <<"extraction">>
        \o (IF args.use_graph THEN <<"graph_construction">> ELSE <<>>)
        \o <<"prompt_construction", "llm_call", "code_extraction">>
        \o (IF args.evaluate THEN <<"integration", "scoring">> ELSE <<>>)

\* C1: for every bug the stages run in the order extraction, graph
\* construction (if enabled), prompt construction, LLM call, code-block
\* extraction, integration and scoring (if enabled): the stages entered so
\* far are always a prefix of that order.  Each gate holds: a stage after the
\* extraction has run only if the extraction returned a record, the code
\* extraction only after a non-empty response, integration and scoring only
\* after non-empty extracted code (scoring only after a successful
\* integration); so no stage runs after a failed gate.
C1_StageOrder ==
    /\ Len(ran) <= Len(C1_Order)
    /\ ran = SubSeq(C1_Order, 1, Len(ran))
    /\ Len(ran) >= 2 => (~vuln_info.none /\ vuln_info.v.keys # {})
    /\ "code_extraction" \in Range(ran) => (~response.none /\ response.v # <<>>)
    /\ "integration" \in Range(ran) => (~generated_code.none /\ generated_code.v # <<>>)
    /\ "scoring" \in Range(ran) => ~fixed_file.none

\* A bug went through every stage, graph construction and scoring included.
C1_Witness ==
    /\ pc = "finish"
    /\ ran = <<"extraction", "graph_construction", "prompt_construction", "llm_call",
               "code_extraction", "integration", "scoring">>
    /\ result.stages = {"extraction", "graph_building", "inference", "evaluation"}

\* ------------------------------------------------------------------- C2

\* C2: a failure while processing one bug id (a failed gate or an exception
\* in any stage) never stops the run: every bug id main has gone past has its
\* result in all_results['results'], the failed ones with success = False,
\* and main ends only after the last bug id.
C2_FailureContinues ==
    /\ pc \in {"loop", "done"} =>
          \A k \in 1..(idx - 1) :
              /\ HasResult(all_results, bug_ids[k])
              /\ bug_ids[k] \in failed => ~all_results.results[bug_ids[k]].success
    /\ pc = "done" =>
          /\ idx = Len(bug_ids) + 1
          /\ DOMAIN all_results.results = Range(bug_ids)

\* The first bug failed, the second one was still processed, and succeeded.
C2_Witness ==
    /\ pc = "done"
    /\ Len(bug_ids) = 2
    /\ "b1" \in failed
    /\ ~all_results.results["b1"].success
    /\ all_results.results["b2"].success

\* ------------------------------------------------------------------- C5

C5_GraphArtifacts == {"graphs/graph.graphml", "graphs/graph_info.txt"}

C9_FileHasFirst(k) ==
    /\ file.state = "written"
    /\ \A j \in 1..k :
          /\ bug_ids[j] \in DOMAIN file.results
          /\ file.results[bug_ids[j]] = all_results.results[bug_ids[j]]

\* At the end of the run the file holds every result and the summary, with
\* total the number of bug ids and success the number of successful ones.
C9_FinalFile ==
    pc = "done" =>
        /\ C9_FileHasFirst(Len(bug_ids))
        /\ ~file.summary.none
        /\ file.summary.v.total = Len(bug_ids)
        /\ file.summary.v.success =
              Cardinality({j \in 1..Len(bug_ids) : all_results.results[bug_ids[j]].success})
        /\ file.summary.v.success <= file.summary.v.total

\* C9 as stated: once main is past the k-th bug id, and before the (k+1)-th
\* starts, all_results.json holds the results of the first k bug ids; at the
\* end it holds the summary as well.
C9_Original ==
    /\ (pc \notin {"idle", "done"} /\ idx > 1) => C9_FileHasFirst(idx - 1)
    /\ C9_FinalFile

\* C9 (amended): after each bug id main rewrites all_results.json with the
\* results so far before the next bug starts; when that write did not raise,
\* the file holds the results of the first k bug ids (when it raised, the
\* error is logged, the file is stale or cut short, and the run goes on).
\* After the loop the file is written with every result and the summary,
\* total = number of bug ids, success = number of successful ones.
C9_Persisted ==
    /\ (pc \notin {"idle", "done"} /\ idx > 1 /\ write_status = "ok") =>
          C9_FileHasFirst(idx - 1)
    /\ C9_FinalFile

\* The second bug is about to be extracted and the file holds the first
\* one's result.
C9_Witness ==
    /\ pc = "extract"
    /\ idx = 2
    /\ write_status = "ok"
    /\ file.state = "written"
    /\ DOMAIN file.results = {"b1"}
    /\ file.results["b1"].success

\* ------------------------------------------------------------------ C10

\* The bugs whose stored evaluation has a code_quality that is not None.
C10_ScoredBugs ==
    {j \in 1..Len(bug_ids) :
        /\ bug_ids[j] \in DOMAIN all_results.results
        /\ ~all_results.results[bug_ids[j]].evaluation.none
        /\ ~all_results.results[bug_ids[j]].evaluation.v.code_quality.none}

\* C10: code_quality_avg is the sum of the non-null code_quality values
\* divided by the number of bugs with a non-null code_quality (0.0 when
\* there is none).
C10_AverageOverScored ==
    pc = "done" =>
        LET avg == all_results.summary.v.code_quality_avg
            n == Cardinality(C10_ScoredBugs)
            total == SumScores(all_results, bug_ids, Len(bug_ids))
        IN  IF n = 0 THEN avg.num = 0
            ELSE avg.num * n = total * avg.den

\* ------------------------------------------------------------------ C11

\* The stage flags of r form the chain, and r.success says that every stage
\* the options ask for is recorded.
C11_Chained(r) ==
    /\ "evaluation" \in r.stages => "inference" \in r.stages
    /\ "inference" \in r.stages => "extraction" \in r.stages
    /\ "graph_building" \in r.stages => "extraction" \in r.stages
    /\ r.success <=>
          /\ "extraction" \in r.stages
          /\ "inference" \in r.stages
          /\ args.use_graph => "graph_building" \in r.stages
          /\ args.evaluate => "evaluation" \in r.stages

\* C11: in every result process_bug returns (the one just returned and the
\* ones main has stored) evaluation implies inference, inference implies
\* extraction, graph_building implies extraction, and success is True
\* exactly when extraction and inference are recorded, graph_building is
\* recorded if use_graph is set and evaluation is recorded if evaluate is set.
C11_StageChain ==
    /\ pc = "store" => C11_Chained(result)
    /\ \A b \in DOMAIN all_results.results : C11_Chained(all_results.results[b])

\* The run is over; the first bug went through every stage and succeeded,
\* the second one was stopped after the inference (the integration failed).
C11_Witness ==
    /\ pc = "done"
    /\ Len(bug_ids) = 2
    /\ all_results.results["b1"].success
    /\ all_results.results["b1"].stages =
          {"extraction", "graph_building", "inference", "evaluation"}
    /\ ~all_results.results["b2"].success
    /\ all_results.results["b2"].stages = {"extraction", "graph_building", "inference"}

\* ------------------------------------------------------------------ C12

\* The results process_bug has returned: the one just returned and the ones
\* main has stored.
C12_Returned ==
    (IF pc = "store" THEN {result} ELSE {}) \cup
    {all_results.results[b] : b \in DOMAIN all_results.results}

\* C12 as stated: whenever evaluation and success are recorded, the stored
\* evaluation result has a code_quality that is not None.
C12_Original ==
    \A r \in C12_Returned :
        ("evaluation" \in r.stages /\ r.success) =>
            (~r.evaluation.none /\ ~r.evaluation.v.code_quality.none)

\* C12 (amended): whenever process_bug records the evaluation stage, the
\* stored evaluation is the dictionary evaluate_fix returned, whatever it
\* holds, and success is recorded all the same: its keys are bug_id,
\* code_quality and details; code_quality is a CodeBLEU score only when the
\* scoring was reached and calculate_code_bleu produced one, and None when
\* the fixed code could not be loaded or calculate_code_bleu returned None
\* (library absent, scoring exception).
C12_EvaluationStored ==
    \A r \in C12_Returned :
        "evaluation" \in r.stages =>
            /\ r.success
            /\ ~r.evaluation.none
            /\ r.evaluation.v \in {out.ret : out \in {o \in ScoringOutcomes : ~o.raised}}
            /\ r.evaluation.v.keys = {"bug_id", "code_quality", "details"}
            /\ ~r.evaluation.v.code_quality.none =>
                  /\ r.evaluation.v.code_quality.v \in Scores
                  /\ r.evaluation.v.details_keys = {"code_quality"}

\* Evaluation and success are recorded, the scoring was reached, and the
\* stored code_quality is None.
C12_Witness ==
    /\ pc = "store"
    /\ result.success
    /\ "evaluation" \in result.stages
    /\ ~result.evaluation.none
    /\ result.evaluation.v.code_quality.none
    /\ result.evaluation.v.details_keys = {"code_quality"}

\* ------------------------------------------------------------------ C13

\* C13: every call of evaluate_fix that returns a code_quality that is not
\* None has generated the report and written evaluation_summary.json.
C13_SummaryWritten ==
    (fn_pc = "returned" /\ fn_in.fn = "evaluate_fix" /\ ~fn_out.raised
        /\ ~fn_out.ret.code_quality.none) =>
        "evaluation_summary.json" \in fn_out.files

\* ------------------------------------------------------------------ C14

\* The summary's average of a component.
C14_Avg(key) ==
    LET sm == all_results.summary.v
    IN  CASE key = "ngram_match_score" -> sm.ngram_match_avg
          [] key = "weighted_ngram_match_score" -> sm.weighted_ngram_match_avg
          [] key = "syntax_match_score" -> sm.syntax_match_avg
          [] key = "dataflow_match_score" -> sm.dataflow_match_avg

\* The bugs whose stored result holds an evaluation.
C14_EvaluatedBugs ==
    {b \in Range(bug_ids) :
        b \in DOMAIN all_results.results /\ ~all_results.results[b].evaluation.none}

\* C14: the four component averages of the summary are the sums of the
\* component scores found in details['code_quality'] of the evaluated bugs
\* over the number of evaluated bugs; since calculate_code_bleu returns the
\* scalar only, no stored details['code_quality'] holds a component score
\* key, and the four averages are 0.0 in every run.
C14_ComponentAveragesZero ==
    /\ \A b \in DOMAIN all_results.results :
          ~all_results.results[b].evaluation.none =>
              all_results.results[b].evaluation.v.cq_keys \cap ComponentKeys = {}
    /\ pc = "done" =>
          \A key \in ComponentKeys :
              /\ C14_Avg(key).num = 0
              /\ C14_Avg(key).den = IF C14_EvaluatedBugs = {} THEN 1
                                    ELSE Cardinality(C14_EvaluatedBugs)

\* The run is over and a bug was scored above 0: code_quality_avg is not 0,
\* the component averages are.
C14_Witness ==
    /\ pc = "done"
    /\ all_results.summary.v.code_quality_avg.num > 0
    /\ all_results.summary.v.ngram_match_avg.num = 0
    /\ \E b \in C14_EvaluatedBugs :
          all_results.results[b].evaluation.v.cq_keys = {"code_bleu"}

\* ------------------------------------------------------------------ C15

\* The fixed code or the reference code cannot be loaded.
C15_CannotLoad(e) ==
    \/ ~e.fixed_exists
    \/ e.fixed = "read_fails"
    \/ e.target_code.none /\ e.after \in {"missing", "unreadable"}

\* Only the original file fails: it is missing or unreadable, and every
\* other file operation of the call succeeds.
C15_OriginalAlone(e) ==
    /\ e.original = "read_fails"
    /\ e.fixed_exists /\ e.fixed = "ok"
    /\ ~e.target_code.none \/ e.after = "ok"
    /\ e.target_save_ok /\ e.result_write_ok

C16_CodeqlNodes == SelectSeq(fn_out.graph.nodes, LAMBDA n : n.source = "codeql")

RECURSIVE C16_Offset(_)
\* The number of nodes of the taint paths before the k-th.
C16_Offset(k) ==
    IF k = 1 THEN 0 ELSE C16_Offset(k - 1) + Len(fn_in.paths[k - 1].nodes)

\* The graph node added for the i-th node of the k-th taint path.
C16_Added(k, i) == C16_CodeqlNodes[C16_Offset(k) + i]

\* The number of TAINT_FLOW edges from node u to node v.
C16_TaintFlowEdges(u, v) ==
    Cardinality({e \in DOMAIN fn_out.graph.edges :
                    /\ fn_out.graph.edges[e].u = u.id
                    /\ fn_out.graph.edges[e].v = v.id
                    /\ fn_out.graph.edges[e].edge_type = "TAINT_FLOW"})

\* The nodes of the k-th path are in the graph in path order, and every
\* consecutive pair of them is joined by exactly one TAINT_FLOW edge; no
\* other TAINT_FLOW edge leaves or reaches them.
C16_Chained(k) ==
    LET n == Len(fn_in.paths[k].nodes)
    IN  /\ \A i \in 1..n : C16_Added(k, i).line = fn_in.paths[k].nodes[i]
        /\ \A i \in 1..n, m \in DOMAIN C16_CodeqlNodes :
              LET j == C16_Offset(k) + i
              IN  C16_TaintFlowEdges(C16_CodeqlNodes[j], C16_CodeqlNodes[m]) =
                      (IF m = j + 1 /\ i < n THEN 1 ELSE 0)

\* C16 as stated: for every taint path added, of every length, a single
\* node included, the first node is SOURCE, the last node is SINK, the nodes
\* in between are TAINT_STEP, and consecutive nodes are joined by exactly
\* one TAINT_FLOW edge in path order.
C16_Original ==
    fn_pc \in {"parse_semgrep", "merged"} =>
        /\ Len(C16_CodeqlNodes) = C16_Offset(Len(fn_in.paths) + 1)
        /\ \A k \in DOMAIN fn_in.paths :
              LET n == Len(fn_in.paths[k].nodes)
              IN  n > 0 =>
                    /\ C16_Added(k, 1).node_type = "SOURCE"
                    /\ C16_Added(k, n).node_type = "SINK"
                    /\ \A i \in 2..(n - 1) : C16_Added(k, i).node_type = "TAINT_STEP"
                    /\ C16_Chained(k)

\* C16 (amended): for every taint path of two or more nodes the first node
\* is SOURCE, the last node is SINK, the nodes in between are TAINT_STEP and
\* consecutive nodes are joined by exactly one TAINT_FLOW edge in path
\* order; the only node of a single-node path is SOURCE, no node of that
\* path is SINK, and no TAINT_FLOW edge touches it.
C16_SourceBeforeSink ==
    fn_pc \in {"parse_semgrep", "merged"} =>
        /\ Len(C16_CodeqlNodes) = C16_Offset(Len(fn_in.paths) + 1)
        /\ \A k \in DOMAIN fn_in.paths :
              LET n == Len(fn_in.paths[k].nodes)
              IN  n > 0 =>
                    /\ C16_Added(k, 1).node_type = "SOURCE"
                    /\ n > 1 => C16_Added(k, n).node_type = "SINK"
                    /\ \A i \in 2..(n - 1) : C16_Added(k, i).node_type = "TAINT_STEP"
                    /\ C16_Chained(k)

\* A single-node path and a two-node path have been added: three CodeQL
\* nodes SOURCE, SOURCE, SINK and one TAINT_FLOW edge.
C16_Witness ==
    /\ fn_pc = "merged"
    /\ Len(fn_in.paths) = 2
    /\ Len(fn_in.paths[1].nodes) = 1
    /\ Len(fn_in.paths[2].nodes) = 2
    /\ C16_Added(1, 1).node_type = "SOURCE"
    /\ C16_Added(2, 2).node_type = "SINK"
    /\ C16_TaintFlowEdges(C16_Added(2, 1), C16_Added(2, 2)) = 1

\* ------------------------------------------------------------------ C17

\* What build_prompt returns for the bug of the call.
C17_Prompt ==
    build_prompt(fn_in.builder, fn_in.vuln_info, fn_in.graph_info_text, fn_in.model_size)

\* The system content and the user content the built form carries: the
\* contents of the two messages, or the texts between the markers.
C17_Carried ==
    IF ~fn_out.messages.none
    THEN [system |-> fn_out.messages.v[1].content, user |-> fn_out.messages.v[2].content]
    ELSE LET text == fn_out.prompt_text.v
             user_at == CHOOSE i \in DOMAIN text : text[i] = "[USER]"
         IN  [system |-> SubSeq(text, 2, user_at - 1),
              user |-> SubSeq(text, user_at + 1, Len(text) - 1)]

\* C17: exactly one prompt form is built per bug and passed to the LLM,
\* chosen by model_type: for 'openai' and 'anthropic' a list of exactly two
\* messages, system then user, with prompt_text None; for 'local_slm' a
\* single text with the [SYSTEM], [USER] and [ASSISTANT] markers, with
\* messages None; both forms carry the system and user content of
\* build_prompt, and for model_size '1b' the system content is the fixed
\* short prompt.
C17_OnePromptForm ==
    (fn_in.fn = "prompt" /\ fn_pc # "build") =>
        /\ Len(fn_out.built) = 1
        /\ fn_out.messages.none # fn_out.prompt_text.none
        /\ fn_in.model_type \in {"openai", "anthropic"} =>
              /\ fn_out.prompt_text.none
              /\ Len(fn_out.messages.v) = 2
              /\ fn_out.messages.v[1].role = "system"
              /\ fn_out.messages.v[2].role = "user"
        /\ fn_in.model_type = "local_slm" =>
              /\ fn_out.messages.none
              /\ Head(fn_out.prompt_text.v) = "[SYSTEM]"
              /\ fn_out.prompt_text.v[Len(fn_out.prompt_text.v)] = "[ASSISTANT]"
              /\ Cardinality({i \in DOMAIN fn_out.prompt_text.v :
                                 fn_out.prompt_text.v[i] = "[USER]"}) = 1
        /\ C17_Carried = C17_Prompt
        /\ fn_in.model_size = "1b" => C17_Carried.system = ShortSystemPrompt
        /\ fn_pc = "generated" =>
              /\ Len(fn_out.calls) = 1
              /\ fn_out.calls[1].form =
                    (IF fn_out.prompt_text.none THEN "messages" ELSE "prompt_text")
              /\ fn_out.calls[1].backend =
                    (CASE fn_in.model_type = "openai" -> "_generate_openai"
                       [] fn_in.model_type = "anthropic" -> "_generate_anthropic"
                       [] fn_in.model_type = "local_slm" -> "_generate_local_slm")

\* A local model of size '1b' was given the marked text, whose system part
\* is the short prompt although the builder holds another template.
C17_Witness ==
    /\ fn_pc = "generated"
    /\ fn_in.fn = "prompt"
    /\ fn_in.model_type = "local_slm"
    /\ fn_in.model_size = "1b"
    /\ fn_in.builder.system_prompt # ShortSystemPrompt
    /\ fn_out.messages.none
    /\ fn_out.calls = <<[backend |-> "_generate_local_slm", form |-> "prompt_text"]>>
    /\ C17_Carried.system = ShortSystemPrompt

====
